---- MODULE Spec2Model ----
(***************************************************************************)
(* Model of the DeepWiki demo: the Express proxy of server/index.js and    *)
(* the React view of client/src/App.jsx.                                   *)
(*                                                                         *)
(* Strings are TLA+ strings.  A JavaScript object is a record that has     *)
(* only the fields that are present, so "field f is undefined" is          *)
(* f \notin DOMAIN obj.                                                    *)
(***************************************************************************)
EXTENDS Naturals, Sequences, FiniteSets, TLC

VARIABLES
    mcpClientPromise,   \* server: the module-level promise (index.js:9)
    connects,           \* server: number of createMcpClient calls so far
    invocations,        \* server: the client.tool.invoke calls made, in order
    reqs,               \* every HTTP request issued, with its progress
    owner, repo, structure, selectedTopic, doc,
    question, answer, loading, error   \* the nine useState cells of App

uiVars == <<owner, repo, structure, selectedTopic, doc, question, answer, loading, error>>
serverVars == <<mcpClientPromise, connects, invocations>>
vars == <<mcpClientPromise, connects, invocations, reqs,
          owner, repo, structure, selectedTopic, doc, question, answer, loading, error>>

-----------------------------------------------------------------------------
(* Bounds *)

\* requests the arbitrary HTTP client of SpecProxy may send
MaxHttp == 2
\* requests the view may issue after the one it issues on mount
MaxUiReqs == 2

-----------------------------------------------------------------------------
(* JavaScript helpers *)

WhiteSpace == {" ", "\t", "\n"}

RECURSIVE trimStart(_)
trimStart(s) ==
    IF Len(s) > 0 /\ SubSeq(s, 1, 1) \in WhiteSpace THEN trimStart(Tail(s)) ELSE s

RECURSIVE trimEnd(_)
trimEnd(s) ==
    IF Len(s) > 0 /\ SubSeq(s, Len(s), Len(s)) \in WhiteSpace
    THEN trimEnd(SubSeq(s, 1, Len(s) - 1)) ELSE s

\* String.prototype.trim
trim(s) == trimEnd(trimStart(s))

\* !obj.f for a field that is undefined or a string
Falsy(obj, f) == f \notin DOMAIN obj \/ obj[f] = ""

\* a || b for strings
OrElse(a, b) == IF a = "" THEN b ELSE a

\* obj.f || dflt where obj.f is undefined or a string
FieldOr(obj, f, dflt) == IF Falsy(obj, f) THEN dflt ELSE obj[f]

RECURSIVE filterTextKeepAll(_)
\* a variant that keeps a slot for every block and blanks the non-text ones
filterTextKeepAll(blocks) ==
    IF blocks = <<>> THEN <<>>
    ELSE <<IF Head(blocks).type = "text" THEN Head(blocks).text ELSE "">>
         \o filterTextKeepAll(Tail(blocks))

RECURSIVE filterText(_)
\* .filter((b) => b.type === 'text').map((b) => b.text)
filterText(blocks) ==
    IF blocks = <<>> THEN <<>>
    ELSE IF Head(blocks).type = "text"
         THEN <<Head(blocks).text>> \o filterText(Tail(blocks))
         ELSE filterText(Tail(blocks))

RECURSIVE join(_, _)
\* Array.prototype.join
join(items, sep) ==
    IF items = <<>> THEN ""
    ELSE IF Len(items) = 1 THEN items[1]
    ELSE items[1] \o sep \o join(Tail(items), sep)

\* the keys of obj restricted to names
Pick(obj, names) == [f \in names |-> obj[f]]

-----------------------------------------------------------------------------
(* The remote service, seen through client.tool.invoke *)

\* the example result of the specification: text, image, text
BlocksAB == << [type |-> "text", text |-> "A"],
               [type |-> "image", data |-> "iVBOR"],
               [type |-> "text", text |-> "B"] >>

\* what an awaited client.tool.invoke can produce: a throw (transport or
\* remote-side error), undefined, a result object without content, or a
\* result with content blocks
RemoteOutcomes ==
    { [kind |-> "throw", message |-> "tool failed"],
      [kind |-> "undefined"],
      [kind |-> "result", result |-> [isError |-> "true"]],
      [kind |-> "result", result |-> [content |-> BlocksAB]] }

\* what createMcpClient's promise can reject with: here a reason that
\* carries no message
ConnectErrors == {""}

-----------------------------------------------------------------------------
(* server/index.js *)

NoPromise == [state |-> "null", conn |-> 0, reason |-> ""]

\* a variant that connects again once the cached promise has rejected
getMcpClientRetry(promise, n) ==
    IF promise.state \in {"null", "rejected"}
    THEN [promise |-> [state |-> "pending", conn |-> n + 1, reason |-> ""], connects |-> n + 1]
    ELSE [promise |-> promise, connects |-> n]

\* a variant that caches the client only once the connection is up, so every
\* caller that arrives while it is pending connects again
getMcpClientRacy(promise, n) ==
    IF promise.state \in {"null", "pending"}
    THEN [promise |-> [state |-> "pending", conn |-> n + 1, reason |-> ""], connects |-> n + 1]
    ELSE [promise |-> promise, connects |-> n]

\* getMcpClient: the check and the assignment run in one synchronous step;
\* the result is the promise every caller awaits and the number of
\* createMcpClient calls made so far
getMcpClient(promise, n) ==
    IF promise.state = "null"
    THEN [promise |-> [state |-> "pending", conn |-> n + 1, reason |-> ""], connects |-> n + 1]
    ELSE [promise |-> promise, connects |-> n]

\* if (!owner || !repo)
structureMissing(query) == Falsy(query, "owner") \/ Falsy(query, "repo")

\* if (!owner || !repo || !question)
askMissing(body) == Falsy(body, "owner") \/ Falsy(body, "repo") \/ Falsy(body, "question")

\* res.status(400).json({ error: message })
badRequest(message) ==
    [status |-> 400, type |-> "json", body |-> [error |-> message]]

\* a variant that forwards only the text blocks
contentOfTextOnly(outcome) ==
    IF outcome.kind = "result" /\ "content" \in DOMAIN outcome.result
    THEN SelectSeq(outcome.result.content, LAMBDA b : b.type = "text")
    ELSE <<>>

\* result?.content ?? []
contentOf(outcome) ==
    IF outcome.kind = "result" /\ "content" \in DOMAIN outcome.result
    THEN outcome.result.content
    ELSE <<>>

\* res.json({ ok: true, data: result?.content ?? [] })
success(outcome) ==
    [status |-> 200, type |-> "json", body |-> [ok |-> TRUE, data |-> contentOf(outcome)]]

\* a variant that forgets res.status(500)
failureNoStatus(message) ==
    [status |-> 200, type |-> "json",
     body |-> [ok |-> FALSE, error |-> OrElse(message, "unknown error")]]

\* res.status(500).json({ ok: false, error: err?.message || 'unknown error' })
failure(message) ==
    [status |-> 500, type |-> "json",
     body |-> [ok |-> FALSE, error |-> OrElse(message, "unknown error")]]

\* Express's final handler for a method and path no route matches
notFound(route) ==
    [status |-> 404, type |-> "html", body |-> [html |-> "Cannot " \o route]]

\* the routes app.get / app.post register
Routes == {"GET /api/structure", "POST /api/ask"}

NewReq(origin, action, route, params) ==
    [origin |-> origin, action |-> action, route |-> route, params |-> params,
     pc |-> "sent", res |-> <<>>, outcome |-> [kind |-> "none"]]

Respond(i, response) ==
    reqs' = [reqs EXCEPT ![i].pc = "responded", ![i].res = Append(@, response)]

\* lines 28-32 and 50-54: validate, then call getMcpClient and await it
HandlerStart(i, missing, message) ==
    IF missing
    THEN /\ Respond(i, badRequest(message))
         /\ UNCHANGED <<mcpClientPromise, connects>>
    ELSE LET g == getMcpClient(mcpClientPromise, connects) IN
         /\ mcpClientPromise' = g.promise
         /\ connects' = g.connects
         /\ reqs' = [reqs EXCEPT ![i].pc = "awaitClient"]

\* a variant that makes no call when the same tool was already invoked
\* with the same arguments
HandlerInvokeCached(i, toolName, argNames) ==
    /\ reqs[i].pc = "awaitClient"
    /\ mcpClientPromise.state \in {"fulfilled", "rejected"}
    /\ IF mcpClientPromise.state = "rejected"
       THEN /\ Respond(i, failure(mcpClientPromise.reason))
            /\ UNCHANGED invocations
       ELSE /\ invocations' =
                 IF \E k \in DOMAIN invocations :
                        /\ invocations[k].toolName = toolName
                        /\ invocations[k].arguments = Pick(reqs[i].params, argNames)
                 THEN invocations
                 ELSE Append(invocations,
                        [toolName |-> toolName, arguments |-> Pick(reqs[i].params, argNames),
                         conn |-> mcpClientPromise.conn, req |-> i])
            /\ reqs' = [reqs EXCEPT ![i].pc = "awaitInvoke"]
    /\ UNCHANGED <<mcpClientPromise, connects, uiVars>>

\* lines 32-39 and 54-59: the awaited promise has settled; a rejection lands in
\* the catch block, otherwise client.tool.invoke is called and awaited
HandlerInvoke(i, toolName, argNames) ==
    /\ reqs[i].pc = "awaitClient"
    /\ mcpClientPromise.state \in {"fulfilled", "rejected"}
    /\ IF mcpClientPromise.state = "rejected"
       THEN /\ Respond(i, failure(mcpClientPromise.reason))
            /\ UNCHANGED invocations
       ELSE /\ invocations' = Append(invocations,
                   [toolName |-> toolName, arguments |-> Pick(reqs[i].params, argNames),
                    conn |-> mcpClientPromise.conn, req |-> i])
            /\ reqs' = [reqs EXCEPT ![i].pc = "awaitInvoke"]
    /\ UNCHANGED <<mcpClientPromise, connects, uiVars>>

\* a variant that rejects a result without content blocks
settleStrict(outcome) ==
    IF outcome.kind = "throw" THEN failure(outcome.message)
    ELSE IF outcome.kind = "undefined" \/ "content" \notin DOMAIN outcome.result
    THEN failure("malformed response")
    ELSE success(outcome)

\* lines 41-45 and 61-65: the invocation has settled
settle(outcome) ==
    IF outcome.kind = "throw" THEN failure(outcome.message) ELSE success(outcome)

HandlerSettle(i, outcome) ==
    /\ reqs[i].pc = "awaitInvoke"
    /\ reqs' = [reqs EXCEPT ![i].pc = "responded", ![i].outcome = outcome,
                            ![i].res = Append(@, settle(outcome))]
    /\ UNCHANGED <<serverVars, uiVars>>

\* app.get('/api/structure', ...)
StructureStart(i) ==
    /\ reqs[i].pc = "sent"
    /\ reqs[i].route = "GET /api/structure"
    /\ HandlerStart(i, structureMissing(reqs[i].params), "owner and repo are required")
    /\ UNCHANGED <<invocations, uiVars>>

StructureInvoke(i) ==
    /\ reqs[i].route = "GET /api/structure"
    /\ HandlerInvoke(i, "read_wiki_structure", {"owner", "repo"})

StructureSettle(i) ==
    /\ reqs[i].route = "GET /api/structure"
    /\ \E outcome \in RemoteOutcomes : HandlerSettle(i, outcome)

\* app.post('/api/ask', ...)
AskStart(i) ==
    /\ reqs[i].pc = "sent"
    /\ reqs[i].route = "POST /api/ask"
    /\ HandlerStart(i, askMissing(reqs[i].params), "owner, repo, question are required")
    /\ UNCHANGED <<invocations, uiVars>>

AskInvoke(i) ==
    /\ reqs[i].route = "POST /api/ask"
    /\ HandlerInvoke(i, "ask_question", {"owner", "repo", "question"})

AskSettle(i) ==
    /\ reqs[i].route = "POST /api/ask"
    /\ \E outcome \in RemoteOutcomes : HandlerSettle(i, outcome)

\* any other method and path: no handler runs
NoRoute(i) ==
    /\ reqs[i].pc = "sent"
    /\ reqs[i].route \notin Routes
    /\ Respond(i, notFound(reqs[i].route))
    /\ UNCHANGED <<serverVars, uiVars>>

\* the promise createMcpClient returned settles
ConnectSettles ==
    /\ mcpClientPromise.state = "pending"
    /\ \/ mcpClientPromise' = [mcpClientPromise EXCEPT !.state = "fulfilled"]
       \/ \E reason \in ConnectErrors :
            mcpClientPromise' = [mcpClientPromise EXCEPT !.state = "rejected", !.reason = reason]
    /\ UNCHANGED <<connects, invocations, reqs, uiVars>>

Server ==
    \/ \E i \in DOMAIN reqs : StructureStart(i)
    \/ \E i \in DOMAIN reqs : StructureInvoke(i)
    \/ \E i \in DOMAIN reqs : StructureSettle(i)
    \/ \E i \in DOMAIN reqs : AskStart(i)
    \/ \E i \in DOMAIN reqs : AskInvoke(i)
    \/ \E i \in DOMAIN reqs : AskSettle(i)
    \/ \E i \in DOMAIN reqs : NoRoute(i)
    \/ ConnectSettles

-----------------------------------------------------------------------------
(* An arbitrary HTTP client of the proxy *)

HttpRequests ==
    { [route |-> "GET /api/structure", params |-> [owner |-> "facebook", repo |-> "react"]],
      [route |-> "GET /api/structure", params |-> [repo |-> "react"]],
      [route |-> "GET /api/structure", params |-> [owner |-> "facebook", repo |-> ""]],
      [route |-> "POST /api/ask",
       params |-> [owner |-> "facebook", repo |-> "react", question |-> "Why?"]],
      [route |-> "POST /api/ask", params |-> [owner |-> "facebook", repo |-> "react"]],
      [route |-> "POST /api/ask",
       params |-> [owner |-> "", repo |-> "react", question |-> "Why?"]],
      [route |-> "GET /api/contents",
       params |-> [owner |-> "facebook", repo |-> "react", topic |-> "A"]],
      [route |-> "GET /api/contents", params |-> [owner |-> "facebook", repo |-> "react"]] }

HttpCount == Cardinality({i \in DOMAIN reqs : reqs[i].origin = "http"})

HttpRequest ==
    /\ HttpCount < MaxHttp
    /\ \E r \in HttpRequests : reqs' = Append(reqs, NewReq("http", "none", r.route, r.params))
    /\ UNCHANGED <<serverVars, uiVars>>

-----------------------------------------------------------------------------
(* client/src/App.jsx *)

DefaultOwner == "facebook"
DefaultRepo == "react"
DefaultQuestion == "How does concurrent rendering work?"

\* what the user may type into the three inputs
OwnerInputs == {" ", DefaultOwner}
RepoInputs == {"", DefaultRepo}
QuestionInputs == {"  ", DefaultQuestion}

\* a variant without the trim
canQueryNoTrim(o, r) == o # "" /\ r # ""

\* useMemo(() => owner.trim() && repo.trim()), read as a condition
canQuery(o, r) == trim(o) # "" /\ trim(r) # ""

UiCount == Cardinality({i \in DOMAIN reqs : reqs[i].origin = "ui"})

\* a variant that sends every request twice
FetchTwice(action, route, params) ==
    /\ UiCount < 1 + MaxUiReqs
    /\ reqs' = Append(Append(reqs, NewReq("ui", action, route, params)),
                      NewReq("ui", action, route, params))

\* fetch(...) from the view
Fetch(action, route, params) ==
    /\ UiCount < 1 + MaxUiReqs
    /\ reqs' = Append(reqs, NewReq("ui", action, route, params))

\* a variant that also dismisses the error when the context is not queryable
StructureEffectDismisses(o, r) ==
    /\ structure' = <<>>
    /\ selectedTopic' = ""
    /\ doc' = ""
    /\ IF canQuery(o, r)
       THEN /\ loading' = TRUE
            /\ error' = ""
            /\ Fetch("structure", "GET /api/structure", [owner |-> o, repo |-> r])
       ELSE error' = "" /\ UNCHANGED <<loading, reqs>>

\* the body of the useEffect, run with the owner and repo just rendered
StructureEffect(o, r) ==
    /\ structure' = <<>>
    /\ selectedTopic' = ""
    /\ doc' = ""
    /\ IF canQuery(o, r)
       THEN /\ loading' = TRUE
            /\ error' = ""
            /\ Fetch("structure", "GET /api/structure", [owner |-> o, repo |-> r])
       ELSE UNCHANGED <<loading, error, reqs>>

\* onChange of the owner input: a new value re-renders and runs the effect
SetOwner(v) ==
    /\ v # owner
    /\ owner' = v
    /\ StructureEffect(v, repo)
    /\ UNCHANGED <<serverVars, repo, question, answer>>

\* onChange of the repo input
SetRepo(v) ==
    /\ v # repo
    /\ repo' = v
    /\ StructureEffect(owner, v)
    /\ UNCHANGED <<serverVars, owner, question, answer>>

\* onChange of the question input
SetQuestion(v) ==
    /\ v # question
    /\ question' = v
    /\ UNCHANGED <<serverVars, reqs, owner, repo, structure, selectedTopic, doc,
                   answer, loading, error>>

\* a variant in which the button does reload the structure
RefreshStructureReloads ==
    /\ canQuery(owner, repo) /\ ~loading
    /\ StructureEffect(owner, repo)
    /\ UNCHANGED <<serverVars, owner, repo, question, answer>>

\* onClick of "Refresh Structure": setOwner((o) => o) keeps the state
RefreshStructure ==
    /\ canQuery(owner, repo) /\ ~loading
    /\ owner' = owner
    /\ UNCHANGED <<serverVars, reqs, repo, structure, selectedTopic, doc,
                   question, answer, loading, error>>

\* onClick of a topic button
loadTopic(topic) ==
    /\ \E k \in DOMAIN structure : structure[k] = topic
    /\ IF topic = ""
       THEN UNCHANGED <<reqs, selectedTopic, doc, loading, error>>
       ELSE /\ selectedTopic' = topic
            /\ doc' = ""
            /\ loading' = TRUE
            /\ error' = ""
            /\ Fetch("contents", "GET /api/contents",
                     [owner |-> owner, repo |-> repo, topic |-> topic])
    /\ UNCHANGED <<serverVars, owner, repo, structure, question, answer>>

\* onClick of "Ask", a button that is disabled while !canQuery || loading
ask ==
    /\ canQuery(owner, repo) /\ ~loading
    /\ IF ~canQuery(owner, repo) \/ trim(question) = ""
       THEN UNCHANGED <<reqs, answer, loading, error>>
       ELSE /\ answer' = ""
            /\ loading' = TRUE
            /\ error' = ""
            /\ Fetch("ask", "POST /api/ask",
                     [owner |-> owner, repo |-> repo, question |-> question])
    /\ UNCHANGED <<serverVars, owner, repo, structure, selectedTopic, doc, question>>

\* what the try block of a request ends with: the blocks of a success
\* envelope, or the message of the Error that reaches the catch block
\* (fetch rejected, res.json() rejected, or !json.ok)
tryResult(fetched, fallback) ==
    IF fetched.kind = "rejected"
    THEN [ok |-> FALSE, message |-> "Failed to fetch"]
    ELSE IF fetched.response.type # "json"
    THEN [ok |-> FALSE, message |-> "Unexpected token < in JSON at position 0"]
    ELSE LET json == fetched.response.body IN
         IF ~("ok" \in DOMAIN json /\ json.ok)
         THEN [ok |-> FALSE, message |-> FieldOr(json, "error", fallback)]
         ELSE [ok |-> TRUE,
               data |-> IF "data" \in DOMAIN json THEN json.data ELSE <<>>]

\* a variant that drops a response when the context is no longer queryable
structureDoneGuarded(fetched) ==
    LET r == tryResult(fetched, "Failed to load structure") IN
    /\ IF r.ok
       THEN /\ structure' = IF canQuery(owner, repo) THEN filterText(r.data) ELSE structure
            /\ UNCHANGED error
       ELSE error' = r.message /\ UNCHANGED structure
    /\ loading' = FALSE
    /\ UNCHANGED <<owner, repo, selectedTopic, doc, question, answer>>

\* lines 55-66: the rest of the effect's async function
structureDone(fetched) ==
    LET r == tryResult(fetched, "Failed to load structure") IN
    /\ IF r.ok
       THEN structure' = filterText(r.data) /\ UNCHANGED error
       ELSE error' = r.message /\ UNCHANGED structure
    /\ loading' = FALSE
    /\ UNCHANGED <<owner, repo, selectedTopic, doc, question, answer>>

\* lines 82-94: the rest of loadTopic
contentsDone(fetched) ==
    LET r == tryResult(fetched, "Failed to load contents") IN
    /\ IF r.ok
       THEN doc' = join(filterText(r.data), "\n\n") /\ UNCHANGED error
       ELSE error' = r.message /\ UNCHANGED doc
    /\ loading' = FALSE
    /\ UNCHANGED <<owner, repo, structure, selectedTopic, question, answer>>

\* a variant that dismisses a displayed error when the answer arrives
askDoneDismisses(fetched) ==
    LET r == tryResult(fetched, "ask_question failed") IN
    /\ IF r.ok
       THEN answer' = join(filterText(r.data), "\n\n") /\ error' = ""
       ELSE error' = r.message /\ UNCHANGED answer
    /\ loading' = FALSE
    /\ UNCHANGED <<owner, repo, structure, selectedTopic, doc, question>>

\* a variant that empties the question field on completion
askDoneClearsQuestion(fetched) ==
    LET r == tryResult(fetched, "ask_question failed") IN
    /\ IF r.ok
       THEN answer' = join(filterText(r.data), "\n\n") /\ UNCHANGED error
       ELSE error' = r.message /\ UNCHANGED answer
    /\ loading' = FALSE
    /\ question' = ""
    /\ UNCHANGED <<owner, repo, structure, selectedTopic, doc>>

\* lines 108-120: the rest of ask
askDone(fetched) ==
    LET r == tryResult(fetched, "ask_question failed") IN
    /\ IF r.ok
       THEN answer' = join(filterText(r.data), "\n\n") /\ UNCHANGED error
       ELSE error' = r.message /\ UNCHANGED answer
    /\ loading' = FALSE
    /\ UNCHANGED <<owner, repo, structure, selectedTopic, doc, question>>

Continue(i, fetched) ==
    /\ reqs[i].action = "structure" => structureDone(fetched)
    /\ reqs[i].action = "contents" => contentsDone(fetched)
    /\ reqs[i].action = "ask" => askDone(fetched)

\* the response reaches the view and the awaiting function resumes; the
\* exchange is over and only the request itself stays on record
FetchResolves(i) ==
    /\ reqs[i].origin = "ui"
    /\ reqs[i].pc = "responded"
    /\ Continue(i, [kind |-> "resolved", response |-> reqs[i].res[Len(reqs[i].res)]])
    /\ reqs' = [reqs EXCEPT ![i].pc = "delivered", ![i].res = <<>>,
                            ![i].outcome = [kind |-> "none"]]
    /\ UNCHANGED serverVars

\* the network drops the request before it reaches the proxy: fetch rejects
FetchRejects(i) ==
    /\ reqs[i].origin = "ui"
    /\ reqs[i].pc = "sent"
    /\ Continue(i, [kind |-> "rejected"])
    /\ reqs' = [reqs EXCEPT ![i].pc = "lost"]
    /\ UNCHANGED serverVars

View ==
    \/ \E v \in OwnerInputs : SetOwner(v)
    \/ \E v \in RepoInputs : SetRepo(v)
    \/ \E v \in QuestionInputs : SetQuestion(v)
    \/ RefreshStructure
    \/ \E k \in DOMAIN structure : loadTopic(structure[k])
    \/ ask
    \/ \E i \in DOMAIN reqs : FetchResolves(i)
    \/ \E i \in DOMAIN reqs : FetchRejects(i)

-----------------------------------------------------------------------------
(* Specifications *)

\* the state once App has mounted: the effect has run for facebook/react
Init ==
    /\ mcpClientPromise = NoPromise
    /\ connects = 0
    /\ invocations = <<>>
    /\ owner = DefaultOwner
    /\ repo = DefaultRepo
    /\ structure = <<>>
    /\ selectedTopic = ""
    /\ doc = ""
    /\ question = DefaultQuestion
    /\ answer = ""
    /\ loading = TRUE
    /\ error = ""
    /\ reqs = << NewReq("ui", "structure", "GET /api/structure",
                        [owner |-> DefaultOwner, repo |-> DefaultRepo]) >>

\* the view and the proxy
Next == View \/ Server

Spec == Init /\ [][Next]_vars

\* the proxy under an arbitrary HTTP client
NextProxy == HttpRequest \/ Server

SpecProxy == Init /\ [][NextProxy]_vars

TypeOK ==
    /\ mcpClientPromise.state \in {"null", "pending", "fulfilled", "rejected"}
    /\ connects \in Nat
    /\ loading \in BOOLEAN
    /\ \A i \in DOMAIN reqs :
         reqs[i].pc \in {"sent", "awaitClient", "awaitInvoke", "responded", "delivered", "lost"}

-----------------------------------------------------------------------------
(* Properties of the proxy (SpecProxy) *)

\* the fields the specification requires of each operation
RequiredOf(route) ==
    IF route = "GET /api/structure" THEN {"owner", "repo"}
    ELSE IF route = "GET /api/contents" THEN {"owner", "repo", "topic"}
    ELSE {"owner", "repo", "question"}

MissingRequired(i) == \E f \in RequiredOf(reqs[i].route) : Falsy(reqs[i].params, f)

Answered(i) == reqs[i].res # <<>>

\* the invocations made on behalf of request i
InvOf(i) == {k \in DOMAIN invocations : invocations[k].req = i}

\* a valid request that found the connection promise rejected
ConnectFailed(i) ==
    /\ reqs[i].route \in Routes
    /\ ~MissingRequired(i)
    /\ Answered(i)
    /\ mcpClientPromise.state = "rejected"

InvokeThrew(i) == reqs[i].outcome.kind = "throw"

Malformed(i) ==
    \/ reqs[i].outcome.kind = "undefined"
    \/ reqs[i].outcome.kind = "result" /\ "content" \notin DOMAIN reqs[i].outcome.result

\* C1: a structure, contents or ask request with a required field missing or
\* empty is answered with status 400, never gets as far as awaiting the
\* connection, and causes no remote invocation.
C1_MissingFieldIs400 ==
    \A i \in DOMAIN reqs :
        MissingRequired(i) =>
            /\ reqs[i].pc \in {"sent", "responded"}
            /\ InvOf(i) = {}
            /\ Answered(i) => reqs[i].res[1].status = 400

\* C2: every response the proxy sends carries an ok field, and every response
\* with status 400 or 500 has the body {ok: false, error: <string>}.
C2_UniformEnvelope ==
    \A i \in DOMAIN reqs : \A k \in DOMAIN reqs[i].res :
        LET r == reqs[i].res[k] IN
        /\ "ok" \in DOMAIN r.body
        /\ r.status \in {400, 500} => DOMAIN r.body = {"ok", "error"} /\ r.body.ok = FALSE

\* C3: a valid request whose connection setup or remote invocation throws is
\* answered exactly once, with status 500 and {ok: false, error: <message>}
\* ('unknown error' when the error has no message), after at most the one
\* invocation that threw.
C3_FailureAnsweredOnce ==
    \A i \in DOMAIN reqs :
        /\ InvokeThrew(i) =>
              /\ Len(reqs[i].res) = 1
              /\ reqs[i].res[1].status = 500
              /\ reqs[i].res[1].body =
                    [ok |-> FALSE,
                     error |-> IF reqs[i].outcome.message = "" THEN "unknown error"
                               ELSE reqs[i].outcome.message]
              /\ Cardinality(InvOf(i)) = 1
        /\ ConnectFailed(i) =>
              /\ Len(reqs[i].res) = 1
              /\ reqs[i].res[1].status = 500
              /\ reqs[i].res[1].body =
                    [ok |-> FALSE,
                     error |-> IF mcpClientPromise.reason = "" THEN "unknown error"
                               ELSE mcpClientPromise.reason]
              /\ InvOf(i) = {}

C3_Witness ==
    \E i, j \in DOMAIN reqs :
        /\ i # j
        /\ InvokeThrew(i) /\ Answered(i)
        /\ InvokeThrew(j) /\ Answered(j)

\* C4 as claimed: a malformed remote response (no result, or a result without
\* content) is answered with status 500 and {ok: false, ...}.
C4_MalformedIsFailure ==
    \A i \in DOMAIN reqs :
        Malformed(i) /\ Answered(i) =>
            reqs[i].res[1].status = 500 /\ reqs[i].res[1].body.ok = FALSE

\* C4 as amended: a malformed remote response (no result, or a result without
\* content) is not a failure: it is answered once, with status 200 and
\* {ok: true, data: []}.
C4_MalformedIsEmptySuccess ==
    \A i \in DOMAIN reqs :
        Malformed(i) =>
            reqs[i].res = << [status |-> 200, type |-> "json",
                              body |-> [ok |-> TRUE, data |-> <<>>]] >>

C4_Witness ==
    \E i, j \in DOMAIN reqs :
        /\ reqs[i].outcome.kind = "undefined" /\ Answered(i)
        /\ reqs[j].outcome.kind = "result" /\ Malformed(j) /\ Answered(j)

\* C5: a valid request whose invocation succeeds with content blocks C is
\* answered {ok: true, data: C}: the same blocks in the same order.
C5_BlocksForwarded ==
    \A i \in DOMAIN reqs :
        reqs[i].outcome.kind = "result" /\ "content" \in DOMAIN reqs[i].outcome.result =>
            reqs[i].res = << [status |-> 200, type |-> "json",
                              body |-> [ok |-> TRUE, data |-> reqs[i].outcome.result.content]] >>

C5_Witness ==
    \E i \in DOMAIN reqs :
        /\ reqs[i].outcome.kind = "result"
        /\ "content" \in DOMAIN reqs[i].outcome.result
        /\ \E k \in DOMAIN reqs[i].outcome.result.content :
               reqs[i].outcome.result.content[k].type # "text"
        /\ Answered(i)

\* C6: a GET /api/contents request with non-empty owner, repo and topic that
\* has been answered caused exactly one invocation of the retrieval tool with
\* (owner, repo, topic).
C6_ContentsServed ==
    \A i \in DOMAIN reqs :
        reqs[i].route = "GET /api/contents" /\ ~MissingRequired(i) /\ Answered(i) =>
            /\ Cardinality(InvOf(i)) = 1
            /\ \A k \in InvOf(i) :
                 /\ invocations[k].toolName = "read_wiki_contents"
                 /\ invocations[k].arguments = Pick(reqs[i].params, {"owner", "repo", "topic"})

\* C7: in every interleaving the client factory is called at most once, and
\* every remote invocation uses the connection of that one call.
C7_SingleConnection ==
    /\ connects <= 1
    /\ \A k \in DOMAIN invocations :
         invocations[k].conn = 1 /\ mcpClientPromise.conn = 1

C7_Witness ==
    \E i, j \in DOMAIN reqs :
        /\ i # j
        /\ reqs[i].pc = "awaitClient" /\ reqs[j].pc = "awaitClient"
        /\ mcpClientPromise.state = "pending"
        /\ connects = 1

\* a valid structure or ask request
ValidServed(i) == reqs[i].route \in Routes /\ ~MissingRequired(i)

\* C8 as claimed: every valid structure or ask request that has been answered
\* caused exactly one remote invocation of its own.
C8_EveryValidInvokes ==
    \A i \in DOMAIN reqs :
        ValidServed(i) /\ Answered(i) => Cardinality(InvOf(i)) = 1

\* C8 as amended: no response is served from a cache. Every valid structure
\* or ask request for which the connection is established causes exactly one
\* remote invocation of its own, repeats with identical arguments included,
\* so the number of invocations equals the number of such requests; a valid
\* request whose connection setup failed causes none.
C8_NoCaching ==
    LET past == {i \in DOMAIN reqs :
                    ValidServed(i) /\ reqs[i].pc \in {"awaitInvoke", "responded", "delivered"}}
    IN  /\ \A i \in past :
             Cardinality(InvOf(i)) = IF mcpClientPromise.state = "rejected" THEN 0 ELSE 1
        /\ Len(invocations) =
             IF mcpClientPromise.state = "rejected" THEN 0 ELSE Cardinality(past)

C8_Witness ==
    \E i, j \in DOMAIN reqs :
        /\ i < j
        /\ reqs[i].route = "POST /api/ask" /\ reqs[j].route = "POST /api/ask"
        /\ reqs[i].params = reqs[j].params
        /\ Answered(i) /\ Answered(j)
        /\ Len(invocations) >= 2

-----------------------------------------------------------------------------
(* Properties of the view (Spec) *)

\* this step issues exactly one request, a structure request for (o, r)
IssuesStructure(o, r) ==
    /\ Len(reqs') = Len(reqs) + 1
    /\ \A i \in DOMAIN reqs : reqs'[i] = reqs[i]
    /\ reqs'[Len(reqs')] =
         NewReq("ui", "structure", "GET /api/structure", [owner |-> o, repo |-> r])

\* this step clears what the previous context had loaded
ResetsLoaded == structure' = <<>> /\ selectedTopic' = "" /\ doc' = ""

\* C9 as claimed: every change of owner or repo resets structure, selected
\* topic and document text, then issues exactly one structure request if
\* owner and repo are both non-empty, and no request otherwise.
C9_RequestsWhenNonEmpty ==
    [][ (owner' # owner \/ repo' # repo) =>
            /\ ResetsLoaded
            /\ IF owner' # "" /\ repo' # ""
               THEN IssuesStructure(owner', repo')
               ELSE reqs' = reqs ]_vars

\* C9 as amended: every change of owner or repo resets structure, selected
\* topic and document text, then issues exactly one structure request (with
\* the values as typed) if owner and repo both contain a non-whitespace
\* character, and no request otherwise.
C9_RequestsWhenNonBlank ==
    [][ (owner' # owner \/ repo' # repo) =>
            /\ ResetsLoaded
            /\ IF trim(owner') # "" /\ trim(repo') # ""
               THEN IssuesStructure(owner', repo')
               ELSE reqs' = reqs ]_vars

\* topics were loaded and one was selected, then owner was changed to a
\* blank string: topics and selection are gone and no request followed
C9_Witness ==
    /\ owner = " " /\ repo = DefaultRepo
    /\ Len(reqs) = 2
    /\ reqs[2].action = "contents"
    /\ structure = <<>>
    /\ selectedTopic = ""

\* the response of request i is a success envelope
SuccessOf(i) ==
    /\ reqs[i].res[1].type = "json"
    /\ "ok" \in DOMAIN reqs[i].res[1].body
    /\ reqs[i].res[1].body.ok

\* C10: a structure response that arrives after repo was changed to the
\* empty string is still applied: structure becomes the response's topics
\* although the current context is empty.
C10_StaleStructureApplied ==
    [][ \A i \in DOMAIN reqs :
            ( /\ reqs[i].action = "structure"
              /\ reqs[i].pc = "responded" /\ reqs'[i].pc = "delivered"
              /\ repo = ""
              /\ SuccessOf(i) )
            => structure' = filterText(reqs[i].res[1].body.data) ]_vars

\* topics are displayed while repo is empty and no request was made after
\* the one issued for facebook/react
C10_Witness ==
    /\ repo = ""
    /\ structure = <<"A", "B">>
    /\ Len(reqs) = 1
    /\ reqs[1].params = [owner |-> DefaultOwner, repo |-> DefaultRepo]

-----------------------------------------------------------------------------
(* More properties of the view (Spec) *)

FromView(i) == reqs[i].origin = "ui"

\* request i of the view has neither been answered to it nor failed
Outstanding(i) == FromView(i) /\ reqs[i].pc \notin {"delivered", "lost"}

\* this step hands the response of request i to the view
Delivers(i) == FromView(i) /\ reqs[i].pc = "responded" /\ reqs'[i].pc = "delivered"

\* this step makes the fetch of request i reject
Rejects(i) == FromView(i) /\ reqs[i].pc = "sent" /\ reqs'[i].pc = "lost"

\* this step completes request i with a failure
Fails(i) == Rejects(i) \/ (Delivers(i) /\ ~SuccessOf(i))

\* this step starts a request of the view
Starts == Len(reqs') > Len(reqs)

\* C11: the loading indication is shown exactly while at least one request
\* of the view is outstanding.
C11_LoadingWhileOutstanding ==
    loading <=> \E i \in DOMAIN reqs : Outstanding(i)

\* the text payloads of the text blocks, in order
TextPayloads(blocks) ==
    LET t == SelectSeq(blocks, LAMBDA b : b.type = "text")
    IN  [k \in 1..Len(t) |-> t[k].text]

RECURSIVE Paragraphs(_)
\* the items separated by a blank line
Paragraphs(items) ==
    IF Len(items) = 0 THEN ""
    ELSE IF Len(items) = 1 THEN items[1]
    ELSE Paragraphs(SubSeq(items, 1, Len(items) - 1)) \o "\n\n" \o items[Len(items)]

\* C12: when the view handles a success envelope, what it displays is made of
\* the text payloads of the text blocks only, in their order: the topic list
\* for structure, the payloads joined by a blank line for contents (doc) and
\* ask (answer).
C12_OnlyTextDisplayed ==
    [][ \A i \in DOMAIN reqs :
            Delivers(i) /\ SuccessOf(i) =>
                LET texts == TextPayloads(reqs[i].res[1].body.data) IN
                /\ reqs[i].action = "structure" => structure' = texts
                /\ reqs[i].action = "contents" => doc' = Paragraphs(texts)
                /\ reqs[i].action = "ask" => answer' = Paragraphs(texts) ]_vars

C12_Witness ==
    /\ structure = <<"A", "B">>
    /\ answer = "A\n\nB"

\* C13 as claimed: a displayed error message stays as it is through every
\* later completion, whether a success or a failure of another request; only
\* the start of a request removes it.
C13_ErrorKept ==
    [][ error # "" /\ ~Starts => error' = error ]_vars

\* C13 as amended: a failed request displays its error message (never an
\* empty one); a later successful completion leaves the displayed message as
\* it is, a later failed completion replaces it with its own message, and
\* only the start of a request empties it.
C13_ErrorNotDismissed ==
    [][ /\ \A i \in DOMAIN reqs :
              /\ Delivers(i) /\ SuccessOf(i) => error' = error
              /\ Fails(i) => error' # ""
        /\ error # "" /\ error' = "" => Starts ]_vars

\* an ask was started (which emptied the error), another request then
\* failed, and the answer has arrived: the error is still displayed
C13_Witness ==
    /\ error # ""
    /\ answer = "A\n\nB"
    /\ \A i \in DOMAIN reqs : ~Outstanding(i)

\* C14: an Ask click with a non-blank question issues exactly one ask
\* request, carrying owner, repo and question; that step and the completion
\* of the request leave owner, repo, structure, selected topic, document text
\* and question unchanged.
C14_AskFrame ==
    [][ /\ (Starts /\ reqs'[Len(reqs')].action = "ask") =>
              /\ reqs' = Append(reqs, NewReq("ui", "ask", "POST /api/ask",
                            [owner |-> owner, repo |-> repo, question |-> question]))
              /\ UNCHANGED <<owner, repo, structure, selectedTopic, doc, question>>
        /\ \A i \in DOMAIN reqs :
              (reqs[i].action = "ask" /\ (Delivers(i) \/ Rejects(i))) =>
                  UNCHANGED <<owner, repo, structure, selectedTopic, doc, question>> ]_vars

C14_Witness ==
    /\ \E i \in DOMAIN reqs : reqs[i].action = "ask" /\ reqs[i].pc = "delivered"
    /\ answer = "A\n\nB"
    /\ question = DefaultQuestion
    /\ structure = <<"A", "B">>

OutstandingOf(a) == {i \in DOMAIN reqs : Outstanding(i) /\ reqs[i].action = a}

\* C15 as claimed: at most one structure request, one contents request and
\* one ask request of the view is outstanding at any time.
C15_OneOutstandingPerAction ==
    \A a \in {"structure", "contents", "ask"} : Cardinality(OutstandingOf(a)) <= 1

\* C15 as amended: every user action (an edit of owner or repo, a topic
\* click, an Ask click) issues at most one request and changes no request
\* issued before; several requests of one action may be outstanding at once.
C15_OneRequestPerStep ==
    [][ /\ Len(reqs') <= Len(reqs) + 1
        /\ \A i \in DOMAIN reqs :
              /\ reqs'[i].params = reqs[i].params
              /\ reqs'[i].action = reqs[i].action ]_vars

C15_Witness ==
    \E a \in {"structure", "contents", "ask"} : Cardinality(OutstandingOf(a)) = 2

\* C16: topic A was selected, then topic B while A's request was outstanding,
\* and B's response has arrived first. When the response of A's request (one
\* the proxy could serve: non-empty owner, repo and topic, no remote failure)
\* then arrives, it is a success envelope and its text becomes the document
\* text, while the selected topic stays B.
C16_LateContentsDisplayed ==
    [][ \A i, j \in DOMAIN reqs :
            ( /\ i < j
              /\ reqs[i].action = "contents" /\ reqs[j].action = "contents"
              /\ reqs[j].pc = "delivered"
              /\ reqs[j].params.topic # reqs[i].params.topic
              /\ selectedTopic = reqs[j].params.topic
              /\ Delivers(i)
              /\ ~MissingRequired(i)
              /\ reqs[i].res[1].status # 500 )
            => /\ SuccessOf(i)
               /\ doc' = Paragraphs(TextPayloads(reqs[i].res[1].body.data))
               /\ selectedTopic' = selectedTopic ]_vars

\* C17: every request the view issues carries a non-empty owner and a
\* non-empty repo, and so does every remote invocation of the proxy.
C17_OwnerRepoNonEmpty ==
    /\ \A i \in DOMAIN reqs :
          FromView(i) => reqs[i].params.owner # "" /\ reqs[i].params.repo # ""
    /\ \A k \in DOMAIN invocations :
          invocations[k].arguments.owner # "" /\ invocations[k].arguments.repo # ""

\* C18: once the first connection attempt has failed, no other attempt is
\* made and no tool is invoked: every valid request that gets its answer is
\* answered once, with status 500.
C18_RejectionCached ==
    mcpClientPromise.state = "rejected" =>
        /\ connects = 1
        /\ invocations = <<>>
        /\ \A i \in DOMAIN reqs :
              ValidServed(i) /\ Answered(i) =>
                  Len(reqs[i].res) = 1 /\ reqs[i].res[1].status = 500

\* a valid request that arrived after the rejection awaits the cached promise
\* while an earlier one already has its 500
C18_Witness ==
    /\ mcpClientPromise.state = "rejected"
    /\ \E i, j \in DOMAIN reqs :
          /\ i < j
          /\ ValidServed(i) /\ Answered(i)
          /\ ValidServed(j) /\ Answered(j)

\* C19: "Refresh Structure" changes nothing and issues nothing. A structure
\* request is issued, and what was loaded is cleared, only by a step that
\* changes owner or repo; and the view's state changes only when owner, repo
\* or question is edited, a request is started or a request completes.
C19_RefreshIsNoOp ==
    [][ /\ (Starts /\ reqs'[Len(reqs')].action = "structure") =>
              (owner' # owner \/ repo' # repo)
        /\ (structure # <<>> /\ structure' = <<>>) =>
              (owner' # owner \/ repo' # repo \/ reqs' # reqs)
        /\ uiVars' # uiVars =>
              (owner' # owner \/ repo' # repo \/ question' # question \/ reqs' # reqs) ]_vars

\* the button is enabled while topics and an answer are displayed
C19_Witness ==
    /\ canQuery(owner, repo) /\ ~loading
    /\ structure = <<"A", "B">>
    /\ \A i \in DOMAIN reqs : ~Outstanding(i)

\* C20: a change of owner or repo leaves answer and question unchanged, and
\* when the new owner or repo is blank it leaves error and loading unchanged
\* as well.
C20_ContextChangeFrame ==
    [][ (owner' # owner \/ repo' # repo) =>
            /\ answer' = answer
            /\ question' = question
            /\ (trim(owner') = "" \/ trim(repo') = "") =>
                  error' = error /\ loading' = loading ]_vars

\* the answer obtained for facebook/react is displayed, with an error, under
\* a context that is not queryable
C20_Witness ==
    /\ answer = "A\n\nB"
    /\ ~canQuery(owner, repo)
    /\ error # ""

=============================================================================
